---------------------------- MODULE Spec2Model ----------------------------
(***************************************************************************)
(* Model of the video synthesis stage of Money-Printer                     *)
(* (src/modules/video_synthesizer.py) and of the settings it reads         *)
(* (src/config/settings.py).                                               *)
(*                                                                         *)
(* Units.  Durations are in tenths of a second, so that the 0.5 s          *)
(* DURATION_TOLERANCE is the integer 5.  Python's None is written as       *)
(* the empty tuple for a missing size and as a falsy 0 for a missing       *)
(* duration (the code only ever tests durations with `not x`, which does   *)
(* not tell None from 0).                                                  *)
(***************************************************************************)
EXTENDS Integers, Sequences, FiniteSets, TLC

VARIABLES
    pc,        \* pc[c]: where call c of create_video stands
    req,       \* req[c]: what the two paths of the request point at
    image,     \* image[c]: the ImageClip handle of _manage_clips
    audio,     \* audio[c]: the AudioFileClip handle of _manage_clips
    exc,       \* exc[c]: the exception in flight, if any
    ret,       \* ret[c]: what create_video gave back to its caller
    trace,     \* trace[c]: the steps of create_video executed so far
    clip,      \* clip[c]: the clip handed to the encoder (size, duration)
    outPath,   \* outPath[c]: the output path computed by _render_final_video
    logs,      \* logs[c]: the records written to the logger
    now,       \* int(time.time()), the wall clock in whole seconds
    outFiles,  \* the files present in OUTPUT_DIR
    resIn,     \* the image size and canvas _process_resolution is applied to
    resOut,    \* what _process_resolution did with them
    kbClip,    \* the clip _apply_enhanced_ken_burns is applied to
    kbConfig,  \* its KenBurnsConfig
    kbState,   \* "new", "applied" (effects attached) or "failed" (raised)
    kbDirection, \* the direction resolved at lines 126-128
    kbFrames,  \* the frames the renderer has sampled: zoom_effect(t), pan_effect(t)
    probed,    \* probed[c]: whether _validate_inputs decoded the image (line 53)
    mrPc,      \* where the call of StoryGenerator._make_request stands
    mrRetries, \* its retries argument in the current activation
    mrAttempts, \* the outcome of each requests.post issued so far
    mrResult   \* what _make_request gave back to its caller

createVars == <<pc, req, image, audio, exc, ret, trace, clip, outPath, logs, now, outFiles, probed>>
resVars == <<resIn, resOut>>
kbVars == <<kbClip, kbConfig, kbState, kbDirection, kbFrames>>
mrVars == <<mrPc, mrRetries, mrAttempts, mrResult>>
vars == <<createVars, resVars, kbVars, mrVars>>

-----------------------------------------------------------------------------
(* Settings *)

\* settings.py:15, seconds
MAX_VIDEO_LENGTH == 180
\* settings.py:16, 0.5 s in tenths of a second
DURATION_TOLERANCE == 5
\* settings.py:17
OUTPUT_RESOLUTION == <<1024, 1024>>

\* The concurrent invocations of create_video that are modelled.
Calls == {1, 2}
\* The last second the wall clock reaches.
MaxClock == 2

\* What an image path can point at.
ImageFiles == {"missing", "empty", "undecodable", "nullsize", "ok"}
\* What an audio path can point at.
AudioFiles == {"missing", "empty", "ok"}

\* Sizes an opened ImageClip can report; <<>> is a None or empty size.
ImageSizes == {<<>>, <<800, 600>>, <<1024, 1024>>}
\* Durations (tenths of a second) an opened AudioFileClip can report;
\* 0 is a zero or None duration.
AudioDurations == {0, 120, 1805, 1806}

-----------------------------------------------------------------------------
(* Exceptions and return values *)

NoExc == [cls |-> "none", msg |-> "none"]
VideoProcessingError(m) == [cls |-> "VideoProcessingError", msg |-> m]
\* Any other subclass of Exception, raised by a library.
LibraryError(m) == [cls |-> "Exception", msg |-> m]

Pending == <<"pending">>
ReturnNone == <<"None">>
Raised(e) == <<"raised", e.cls>>

\* os.path.join(OUTPUT_DIR, f"generated_video_{int(time.time())}.mp4")
OutputPath(t) == <<"output", "generated_video", t>>
NoPath == <<>>

NoHandle == [opened |-> 0, closed |-> 0]
NoClip == [size |-> <<>>, duration |-> 0]

-----------------------------------------------------------------------------
(* Floating point, as far as _process_resolution depends on it *)

\* Python's None as a component of a size tuple (no decoder reports a
\* negative dimension, so the value is free).
None == 0 - 1

RECURSIVE Gcd(_, _)
Gcd(a, b) == IF b = 0 THEN a ELSE Gcd(b, a % b)

RECURSIVE IsPowerOfTwo(_)
IsPowerOfTwo(n) == IF n = 1 THEN TRUE
                   ELSE IF n % 2 = 1 THEN FALSE
                   ELSE IsPowerOfTwo(n \div 2)

\* Whether the double n / d is the exact quotient: the reduced denominator
\* is a power of two (the operands here are far below 2^53).
ExactQuotient(n, d) == IsPowerOfTwo(d \div Gcd(n, d))

\* n with its factors of two removed.  Scaling an operand by two is exact in
\* doubles, so how x * (n / d) rounds depends on the odd parts alone.
RECURSIVE OddPart(_)
OddPart(n) == IF n % 2 = 1 THEN n ELSE OddPart(n \div 2)

\* Odd parts for which the rounding of x * (n / d) has been evaluated in
\* IEEE double arithmetic, every combination of them.
MeasuredOperands == {1, 3, 5, 7, 9, 11, 13, 25, 49, 75, 125}

\* Among the measured operands, the <<x, n, d>> whose product is an integer
\* in exact arithmetic and comes out just below it in doubles:
\* 49 * (1 / 49) is 0.9999999999999999, 11 * (49 / 11) is 48.99999999999999.
TruncatedProducts == {<<49, 1, 49>>, <<11, 49, 11>>}

\* The values int(x * (n / d)) can take in IEEE doubles: n / d is rounded
\* once and the product once more, so a product whose exact value is the
\* integer q may come out just below q and truncate to q - 1 (49 * (1024 /
\* 49) is 1023.9999999999999); a product that is not an integer is at
\* least 1/d away from one and truncates to its floor.  Which of q and
\* q - 1 it is, is known for the measured operands and left open for the
\* others.
IntOfProduct(x, n, d) ==
    LET q == (x * n) \div d
    IN  IF ExactQuotient(n, d) \/ (x * n) % d # 0 \/ q = 0
        THEN {q}
        ELSE LET odd == <<OddPart(x), OddPart(n), OddPart(d)>>
             IN  IF \A i \in 1 .. 3 : odd[i] \in MeasuredOperands
                 THEN IF odd \in TruncatedProducts THEN {q - 1} ELSE {q}
                 ELSE {q, q - 1}

-----------------------------------------------------------------------------
(* VideoSynthesizer._process_resolution *)

\* not hasattr(image, 'size') or not image.size or None in image.size
InvalidSize(size) ==
    \/ size = <<>>
    \/ \E i \in DOMAIN size : size[i] = None

\* Line 99 with max in place of min.
ScaleMax(size, canvas) ==
    IF canvas[1] * size[2] <= canvas[2] * size[1]
    THEN <<canvas[2], size[2]>>
    ELSE <<canvas[1], size[1]>>

\* scale = min(target_w / img_w, target_h / img_h), as the fraction it is
\* the double of: <<numerator, denominator>>.
Scale(size, canvas) ==
    IF canvas[1] * size[2] <= canvas[2] * size[1]
    THEN <<canvas[1], size[1]>>
    ELSE <<canvas[2], size[2]>>

\* new_size = (int(img_w * scale), int(img_h * scale)): the sizes the
\* doubles can give.
NewSizes(size, canvas) ==
    LET s == Scale(size, canvas)
    IN  { <<nw, nh>> : nw \in IntOfProduct(size[1], s[1], s[2]),
                       nh \in IntOfProduct(size[2], s[1], s[2]) }

\* Lines 105-113: the clip returned for a given new_size.  The padded
\* branch returns CompositeVideoClip([padded, image]), whose size is that
\* of its first clip, the canvas-sized black ImageClip.
Compose(newSize, canvas) ==
    IF newSize # canvas
    THEN [exc |-> NoExc, newSize |-> newSize, padded |-> TRUE,
          pos |-> << (canvas[1] - newSize[1]) \div 2,
                     (canvas[2] - newSize[2]) \div 2 >>,
          size |-> canvas]
    ELSE [exc |-> NoExc, newSize |-> newSize, padded |-> FALSE,
          pos |-> <<0, 0>>, size |-> newSize]

Failed(e) == [exc |-> e, newSize |-> <<>>, padded |-> FALSE,
              pos |-> <<0, 0>>, size |-> <<>>]

\* image.resize(new_size): the media library refuses an empty target in
\* some builds and returns an empty picture in others.
Resize(newSize, canvas) ==
    IF newSize[1] = 0 \/ newSize[2] = 0
    THEN {Failed(LibraryError("resize failed")), Compose(newSize, canvas)}
    ELSE {Compose(newSize, canvas)}

\* The outcomes of _process_resolution(image) for a canvas.
ProcessResolution(size, canvas) ==
    IF InvalidSize(size)
    THEN {Failed(VideoProcessingError("Invalid ImageClip: missing or invalid size attribute"))}
    ELSE IF size[1] = 0 \/ size[2] = 0
    THEN {Failed(LibraryError("ZeroDivisionError"))}
    ELSE UNION { Resize(ns, canvas) : ns \in NewSizes(size, canvas) }

-----------------------------------------------------------------------------
(* VideoSynthesizer._validate_inputs *)

\* _validate_inputs with both checks of the image ahead of those of the
\* audio.
ValidateInputsImageFirst(img, aud) ==
    IF img = "missing" THEN "Image file not found"
    ELSE IF img = "empty" THEN "Image file is empty"
    ELSE IF aud = "missing" THEN "Audio file not found"
    ELSE IF aud = "empty" THEN "Audio file is empty"
    ELSE IF img \in {"undecodable", "nullsize"} THEN "Failed to validate image"
    ELSE "ok"

\* The message of the VideoProcessingError raised, or "ok".  The checks run
\* in the order of lines 40-58; an invalid size found at line 55 is raised
\* inside the try and re-raised by line 58.
ValidateInputs(img, aud) ==
    IF img = "missing" THEN "Image file not found"
    ELSE IF aud = "missing" THEN "Audio file not found"
    ELSE IF img = "empty" THEN "Image file is empty"
    ELSE IF aud = "empty" THEN "Audio file is empty"
    ELSE IF img \in {"undecodable", "nullsize"} THEN "Failed to validate image"
    ELSE "ok"

\* Whether _validate_inputs reaches Image.open (line 53): none of the
\* four checks of lines 40-49 raised.
DecodeProbed(img, aud) ==
    ValidateInputs(img, aud) \in {"Failed to validate image", "ok"}

-----------------------------------------------------------------------------
(* VideoSynthesizer.create_video, one step at a time *)

\* Lines 70 and 238 without the duration test.
NoDurationNever(d) == FALSE

\* not audio.duration
NoDuration(d) == d = 0

\* Line 241 with the tolerance taken in whole seconds.
DurationExceededSeconds(d) == d > (MAX_VIDEO_LENGTH + DURATION_TOLERANCE) * 10

\* Line 241 with >= in place of >.
DurationReached(d) == d >= MAX_VIDEO_LENGTH * 10 + DURATION_TOLERANCE

\* audio.duration > MAX_VIDEO_LENGTH + DURATION_TOLERANCE (line 241)
DurationExceeded(d) == d > MAX_VIDEO_LENGTH * 10 + DURATION_TOLERANCE

Log(c, m) == logs' = [logs EXCEPT ![c] = @ \cup {m}]
Did(c, step) == trace' = [trace EXCEPT ![c] = @ \cup {step}]
Goto(c, l) == pc' = [pc EXCEPT ![c] = l]
Raise(c, e) == exc' = [exc EXCEPT ![c] = e]

InitCreate ==
    /\ pc = [c \in Calls |-> "idle"]
    /\ req = [c \in Calls |-> [image |-> "ok", audio |-> "ok"]]
    /\ image = [c \in Calls |-> NoHandle @@ [size |-> <<>>]]
    /\ audio = [c \in Calls |-> NoHandle @@ [duration |-> 0]]
    /\ exc = [c \in Calls |-> NoExc]
    /\ ret = [c \in Calls |-> Pending]
    /\ trace = [c \in Calls |-> {}]
    /\ clip = [c \in Calls |-> NoClip]
    /\ outPath = [c \in Calls |-> NoPath]
    /\ logs = [c \in Calls |-> {}]
    /\ now = 0
    /\ outFiles = {}
    /\ probed = [c \in Calls |-> FALSE]

\* The caller invokes create_video(image_path, audio_path).
Call(c) ==
    /\ pc[c] = "idle"
    /\ \E i \in ImageFiles, a \in AudioFiles :
          req' = [req EXCEPT ![c] = [image |-> i, audio |-> a]]
    /\ Goto(c, "validate")
    /\ UNCHANGED <<image, audio, exc, ret, trace, clip, outPath, logs, now, outFiles, probed, resVars, kbVars, mrVars>>

\* Line 233 with a validation failure logged instead of raised.
ValidateAndContinue(c) ==
    /\ pc[c] = "validate"
    /\ Did(c, "validate")
    /\ LET r == ValidateInputs(req[c].image, req[c].audio)
       IN  IF r = "ok" THEN UNCHANGED logs ELSE Log(c, r)
    /\ probed' = [probed EXCEPT ![c] = DecodeProbed(req[c].image, req[c].audio)]
    /\ Goto(c, "open_image")
    /\ UNCHANGED <<req, image, audio, exc, ret, clip, outPath, now, outFiles, resVars, kbVars, mrVars>>

\* Line 233: self._validate_inputs(image_path, audio_path).
Validate(c) ==
    /\ pc[c] = "validate"
    /\ Did(c, "validate")
    /\ LET r == ValidateInputs(req[c].image, req[c].audio)
       IN  IF r = "ok"
           THEN Goto(c, "open_image") /\ UNCHANGED exc
           ELSE Goto(c, "return") /\ Raise(c, VideoProcessingError(r))
    /\ probed' = [probed EXCEPT ![c] = DecodeProbed(req[c].image, req[c].audio)]
    /\ UNCHANGED <<req, image, audio, ret, clip, outPath, logs, now, outFiles, resVars, kbVars, mrVars>>

\* Lines 65-67: image_clip = ImageClip(image_path) and its size check.  The
\* constructor may raise; once it returned, the handle is held.
OpenImage(c) ==
    /\ pc[c] = "open_image"
    /\ Did(c, "open_image")
    /\ \/ /\ Raise(c, LibraryError("image open failed"))
          /\ Goto(c, "release")
          /\ UNCHANGED image
       \/ \E s \in ImageSizes :
          /\ image' = [image EXCEPT ![c] = [opened |-> 1, closed |-> 0, size |-> s]]
          /\ IF InvalidSize(s)
             THEN /\ Raise(c, VideoProcessingError("Failed to load image: invalid dimensions"))
                  /\ Goto(c, "release")
             ELSE Goto(c, "open_audio") /\ UNCHANGED exc
    /\ UNCHANGED <<req, audio, ret, clip, outPath, logs, now, outFiles, probed, resVars, kbVars, mrVars>>

\* Lines 69-73: audio_clip = AudioFileClip(audio_path), its duration check,
\* and the yield into the body of the with-block.
OpenAudio(c) ==
    /\ pc[c] = "open_audio"
    /\ Did(c, "open_audio")
    /\ \/ /\ Raise(c, LibraryError("audio open failed"))
          /\ Goto(c, "release")
          /\ UNCHANGED audio
       \/ \E d \in AudioDurations :
          /\ audio' = [audio EXCEPT ![c] = [opened |-> 1, closed |-> 0, duration |-> d]]
          /\ IF NoDuration(d)
             THEN /\ Raise(c, VideoProcessingError("Failed to load audio: invalid duration"))
                  /\ Goto(c, "release")
             ELSE Goto(c, "check_duration") /\ UNCHANGED exc
    /\ UNCHANGED <<req, image, ret, clip, outPath, logs, now, outFiles, probed, resVars, kbVars, mrVars>>

\* Lines 238-245: the duration checks at the head of the body.
CheckDuration(c) ==
    /\ pc[c] = "check_duration"
    /\ Did(c, "check_duration")
    /\ IF NoDuration(audio[c].duration)
       THEN /\ Raise(c, VideoProcessingError("Invalid audio: missing duration"))
            /\ Goto(c, "release")
       ELSE IF DurationExceeded(audio[c].duration)
       THEN /\ Raise(c, VideoProcessingError("Audio duration exceeds maximum allowed length"))
            /\ Goto(c, "release")
       ELSE Goto(c, "process_resolution") /\ UNCHANGED exc
    /\ UNCHANGED <<req, image, audio, ret, clip, outPath, logs, now, outFiles, probed, resVars, kbVars, mrVars>>

\* Line 248: image = self._process_resolution(image).
Normalize(c) ==
    /\ pc[c] = "process_resolution"
    /\ Did(c, "process_resolution")
    /\ \E r \in ProcessResolution(image[c].size, OUTPUT_RESOLUTION) :
          IF r.exc # NoExc
          THEN Raise(c, r.exc) /\ Goto(c, "release") /\ UNCHANGED clip
          ELSE /\ clip' = [clip EXCEPT ![c].size = r.size]
               /\ Goto(c, "render")
               /\ UNCHANGED exc
    /\ UNCHANGED <<req, image, audio, ret, outPath, logs, now, outFiles, probed, resVars, kbVars, mrVars>>

\* Line 251: _render_final_video (lines 178-208).  _prepare_video_clip
\* sets the clip's duration from the audio, _apply_enhanced_ken_burns
\* refuses a clip without duration, the output path is built from the
\* clock, and write_videofile either writes the file or raises.
RenderFinalVideo(c) ==
    /\ pc[c] = "render"
    /\ Did(c, "render")
    /\ IF NoDuration(audio[c].duration)
       THEN /\ Raise(c, VideoProcessingError("Invalid audio: missing duration"))
            /\ Goto(c, "release")
            /\ UNCHANGED <<clip, outPath, outFiles>>
       ELSE /\ clip' = [clip EXCEPT ![c].duration = audio[c].duration]
            /\ outPath' = [outPath EXCEPT ![c] = OutputPath(now)]
            /\ \/ /\ outFiles' = outFiles \cup {OutputPath(now)}
                  /\ Goto(c, "release")
                  /\ UNCHANGED exc
               \/ /\ Raise(c, LibraryError("write_videofile failed"))
                  /\ Goto(c, "release")
                  /\ UNCHANGED outFiles
    /\ UNCHANGED <<req, image, audio, ret, logs, now, probed, resVars, kbVars, mrVars>>

\* Lines 75 and 80 without their guards.
HeldAlways(h) == TRUE

\* if image_clip: / if audio_clip: (lines 75, 80)
Held(h) == h.opened > 0

\* Lines 74-84 without the try/except around image_clip.close(): a
\* failing close leaves the finally as the exception in flight.
ManageClipsExitRaising(c) ==
    /\ pc[c] = "release"
    /\ Did(c, "release")
    /\ \/ /\ Held(image[c])
          /\ image' = [image EXCEPT ![c].closed = @ + 1]
          /\ Raise(c, LibraryError("Error closing image clip"))
          /\ UNCHANGED <<audio, logs>>
       \/ /\ image' = [image EXCEPT ![c].closed = IF Held(image[c]) THEN @ + 1 ELSE @]
          /\ audio' = [audio EXCEPT ![c].closed = IF Held(audio[c]) THEN @ + 1 ELSE @]
          /\ UNCHANGED <<exc, logs>>
    /\ Goto(c, "return")
    /\ UNCHANGED <<req, ret, clip, outPath, now, outFiles, probed, resVars, kbVars, mrVars>>

\* Lines 74-84: the finally of _manage_clips.  Each held handle is closed;
\* a close that raises is logged and the next close still runs.
ManageClipsExit(c) ==
    /\ pc[c] = "release"
    /\ Did(c, "release")
    /\ \E imgFails \in IF Held(image[c]) THEN BOOLEAN ELSE {FALSE},
          audFails \in IF Held(audio[c]) THEN BOOLEAN ELSE {FALSE} :
          /\ image' = [image EXCEPT ![c].closed = IF Held(image[c]) THEN @ + 1 ELSE @]
          /\ audio' = [audio EXCEPT ![c].closed = IF Held(audio[c]) THEN @ + 1 ELSE @]
          /\ logs' = [logs EXCEPT ![c] =
                        @ \cup (IF imgFails THEN {"Error closing image clip"} ELSE {})
                          \cup (IF audFails THEN {"Error closing audio clip"} ELSE {})]
    /\ Goto(c, "return")
    /\ UNCHANGED <<req, exc, ret, clip, outPath, now, outFiles, probed, resVars, kbVars, mrVars>>

\* Lines 256-261 without the except Exception clause.
CaughtOnlyVideoProcessingError(e) == e.cls = "VideoProcessingError"

\* except VideoProcessingError / except Exception (lines 256, 259)
Caught(e) == e.cls \in {"VideoProcessingError", "Exception"}

\* Lines 253-261: return output_path, or log the exception and return None.
Return(c) ==
    /\ pc[c] = "return"
    /\ IF exc[c] = NoExc
       THEN /\ ret' = [ret EXCEPT ![c] = outPath[c]]
            /\ Log(c, "Successfully created video")
       ELSE IF Caught(exc[c])
       THEN /\ ret' = [ret EXCEPT ![c] = ReturnNone]
            /\ Log(c, exc[c].msg)
       ELSE /\ ret' = [ret EXCEPT ![c] = Raised(exc[c])]
            /\ UNCHANGED logs
    /\ Goto(c, "done")
    /\ UNCHANGED <<req, image, audio, exc, trace, clip, outPath, now, outFiles, probed, resVars, kbVars, mrVars>>

\* A second of wall-clock time passes.
Tick ==
    /\ now < MaxClock
    /\ now' = now + 1
    /\ UNCHANGED <<pc, req, image, audio, exc, ret, trace, clip, outPath, logs, outFiles, probed, resVars, kbVars, mrVars>>

Next ==
    \/ \E c \in Calls :
          \/ Call(c)
          \/ Validate(c)
          \/ OpenImage(c)
          \/ OpenAudio(c)
          \/ CheckDuration(c)
          \/ Normalize(c)
          \/ RenderFinalVideo(c)
          \/ ManageClipsExit(c)
          \/ Return(c)
    \/ Tick


-----------------------------------------------------------------------------
(* VideoSynthesizer._apply_enhanced_ken_burns *)

(* Time is in whole ticks and a clip lasts kbClip.duration of them.  With   *)
(* u = t / duration, every value below is kept as its numerator over the   *)
(* common denominator duration^2, which is exact: zoom factors are in      *)
(* hundredths and pan fractions in tenths.                                 *)

\* The longest clip sampled, in ticks.  Clips of 0 ticks (a zero or unset
\* duration) and of -1 tick are given to the function as well.
MaxDuration == 4
\* The number of sampled frames kept.
MaxFrames == 2

\* KenBurnsConfig.zoom_range, default (1.0, 1.2) (line 28), in hundredths
ZoomRanges == {<<100, 120>>, <<80, 150>>}
\* KenBurnsConfig.pan_range, default (-0.5, 0.5) (line 29), in tenths
PanRanges == {<<0 - 5, 5>>}
\* KenBurnsConfig.direction (line 30)
Directions == {"random", "in", "out"}

\* The timestamps zoom_effect and pan_effect are evaluated at: the frames
\* of the clip, and one tick either side of it.
FrameTimes(duration) == (0 - 1) .. (duration + 1)

\* Values random.uniform(*config.pan_range) can return.
Uniform(range) == {range[1], range[2]}

\* t / duration < 0.5 (lines 132-133), for a duration of either sign
BelowHalf(t, duration) ==
    IF duration > 0 THEN 2 * t < duration ELSE 2 * t > duration

\* ease_in_out without line 135 (t = t - 1).
EaseInOutNoShift(t, duration) ==
    IF BelowHalf(t, duration)
    THEN 2 * t * t
    ELSE duration * duration - 2 * t * t

\* ease_in_out(t) (lines 130-136), times duration^2:
\*   t = t / duration; 2*t*t if t < 0.5; else t = t - 1; 1 - 2*t*t
EaseInOut(t, duration) ==
    IF BelowHalf(t, duration)
    THEN 2 * t * t
    ELSE duration * duration - 2 * (t - duration) * (t - duration)

\* zoom_effect(t) (lines 138-144), in hundredths times duration^2
ZoomEffect(t, duration, config, direction) ==
    LET zoom_start == IF direction = "out" THEN config.zoom_range[2]
                                           ELSE config.zoom_range[1]
        zoom_end   == IF direction = "out" THEN config.zoom_range[1]
                                           ELSE config.zoom_range[2]
    IN  zoom_start * duration * duration
          + (zoom_end - zoom_start) * EaseInOut(t, duration)

\* pan_effect(t) (lines 146-152) for the two values random.uniform
\* returned in this evaluation: in tenths times duration^2
PanEffect(t, duration, drawX, drawY) ==
    << drawX * EaseInOut(t, duration), drawY * EaseInOut(t, duration) >>

\* not hasattr(clip, 'duration') or not clip.duration (line 117), then
\* lines 126-128: the directions the call can resolve to.
ResolveDirection(direction) ==
    IF direction = "random" THEN {"in", "out"} ELSE {direction}

InitKenBurns ==
    /\ kbClip \in [duration : (0 - 1) .. MaxDuration]
    /\ kbConfig \in [zoom_range : ZoomRanges, pan_range : PanRanges,
                     direction : Directions]
    /\ kbState = "new"
    /\ kbDirection = "unresolved"
    /\ kbFrames = {}

\* No clip is being animated.
IdleKenBurns ==
    /\ kbClip = [duration |-> 0]
    /\ kbConfig = [zoom_range |-> <<100, 120>>, pan_range |-> <<0 - 5, 5>>,
                   direction |-> "random"]
    /\ kbState = "new"
    /\ kbDirection = "unresolved"
    /\ kbFrames = {}

\* Lines 117-128 and 154-157: the duration check, the resolution of the
\* direction, and the attachment of zoom_effect and pan_effect.
ApplyEnhancedKenBurns ==
    /\ kbState = "new"
    /\ IF NoDuration(kbClip.duration)
       THEN kbState' = "failed" /\ UNCHANGED kbDirection
       ELSE /\ kbState' = "applied"
            /\ kbDirection' \in ResolveDirection(kbConfig.direction)
    /\ UNCHANGED <<kbClip, kbConfig, kbFrames, createVars, resVars, mrVars>>

\* The renderer evaluates the attached zoom_effect and pan_effect at time
\* t; pan_effect calls random.uniform twice in each evaluation.
RenderFrame ==
    /\ kbState = "applied"
    /\ Cardinality(kbFrames) < MaxFrames
    /\ \E t \in FrameTimes(kbClip.duration),
          drawX \in Uniform(kbConfig.pan_range),
          drawY \in Uniform(kbConfig.pan_range) :
          kbFrames' = kbFrames \cup
             {[t |-> t,
               progress |-> EaseInOut(t, kbClip.duration),
               zoom |-> ZoomEffect(t, kbClip.duration, kbConfig, kbDirection),
               pan |-> PanEffect(t, kbClip.duration, drawX, drawY),
               draw |-> <<drawX, drawY>>]}
    /\ UNCHANGED <<kbClip, kbConfig, kbState, kbDirection, createVars, resVars, mrVars>>

NextKenBurns == ApplyEnhancedKenBurns \/ RenderFrame

-----------------------------------------------------------------------------
(* _process_resolution applied to one image *)

\* The largest width and height enumerated.
MaxDim == 5

\* Sizes an ImageClip can carry: none, a None component, every size up to
\* MaxDim, and some sizes of real pictures.
SourceSizes ==
    {<<>>, <<None, 2>>, <<2, None>>}
      \cup {<<w, h>> : w \in 0 .. MaxDim, h \in 0 .. MaxDim}
      \cup {<<800, 600>>, <<600, 800>>, <<3, 2>>, <<49, 49>>, <<1024, 1024>>,
            <<2048, 1024>>, <<1, 2000>>}

\* Canvases (settings.OUTPUT_RESOLUTION): every one up to MaxDim, and the
\* default.
Canvases ==
    {<<w, h>> : w \in 1 .. MaxDim, h \in 1 .. MaxDim} \cup {OUTPUT_RESOLUTION}

NotRun == Failed([cls |-> "pending", msg |-> "pending"])

InitResolution ==
    /\ resIn \in [size : SourceSizes, canvas : Canvases]
    /\ resOut = NotRun

\* No image is being normalized.
IdleResolution ==
    /\ resIn = [size |-> <<>>, canvas |-> OUTPUT_RESOLUTION]
    /\ resOut = NotRun

\* self._process_resolution(image) with settings.OUTPUT_RESOLUTION = canvas
ApplyProcessResolution ==
    /\ resOut = NotRun
    /\ resOut' \in ProcessResolution(resIn.size, resIn.canvas)
    /\ UNCHANGED <<resIn, createVars, kbVars, mrVars>>

NextResolution == ApplyProcessResolution

-----------------------------------------------------------------------------
(* StoryGenerator._make_request *)

\* settings.py:31
MAX_RETRIES == 3

\* What one requests.post / raise_for_status / response.json() can do:
\* return the text, or raise one of the RequestException subclasses.
PostFailures == {"ConnectionError", "Timeout", "HTTPError"}
\* response.json().get can also raise what is no RequestException.
PostOutcomes == PostFailures \cup {"ok", "ValueError"}

\* Line 66 with <= in place of <.
ShouldRetryInclusive(retries) == retries <= MAX_RETRIES

\* retries < self.settings.MAX_RETRIES (line 66)
ShouldRetry(retries) == retries < MAX_RETRIES

\* generate_story has not called _make_request (line 95).
IdleRequest ==
    /\ mrPc = "idle"
    /\ mrRetries = 0
    /\ mrAttempts = <<>>
    /\ mrResult = "pending"

\* Line 95: story = self._make_request(prompt), retries defaulting to 0.
MakeRequest ==
    /\ mrPc = "idle"
    /\ mrPc' = "post"
    /\ mrRetries' = 0
    /\ UNCHANGED <<mrAttempts, mrResult, createVars, resVars, kbVars>>

\* Lines 53-72 of one activation: the post, and on a RequestException
\* either the warning and the sleep before the recursive call, or the
\* error and return None.  Any other exception leaves _make_request.
Post ==
    /\ mrPc = "post"
    /\ \E o \in PostOutcomes :
          /\ mrAttempts' = Append(mrAttempts, o)
          /\ IF o = "ok"
             THEN mrPc' = "done" /\ mrResult' = "text" /\ UNCHANGED mrRetries
             ELSE IF o \notin PostFailures
             THEN mrPc' = "done" /\ mrResult' = "raised" /\ UNCHANGED mrRetries
             ELSE IF ShouldRetry(mrRetries)
             THEN mrPc' = "sleep" /\ UNCHANGED <<mrResult, mrRetries>>
             ELSE mrPc' = "done" /\ mrResult' = "None" /\ UNCHANGED mrRetries
    /\ UNCHANGED <<createVars, resVars, kbVars>>

\* Lines 68-69: time.sleep(RETRY_DELAY) ends and
\* self._make_request(prompt, retries + 1) is entered; its result is
\* returned unchanged by every enclosing activation.
Retry ==
    /\ mrPc = "sleep"
    /\ mrPc' = "post"
    /\ mrRetries' = mrRetries + 1
    /\ UNCHANGED <<mrAttempts, mrResult, createVars, resVars, kbVars>>

NextRequest == MakeRequest \/ Post \/ Retry

-----------------------------------------------------------------------------
(* Specifications *)

\* create_video, called concurrently
Init == InitCreate /\ IdleResolution /\ IdleKenBurns /\ IdleRequest
Spec == Init /\ [][Next]_vars

\* _process_resolution over sizes and canvases
InitR == InitCreate /\ InitResolution /\ IdleKenBurns /\ IdleRequest
SpecResolution == InitR /\ [][NextResolution]_vars

\* _apply_enhanced_ken_burns and the sampling of its effects
InitK == InitCreate /\ IdleResolution /\ InitKenBurns /\ IdleRequest
SpecKenBurns == InitK /\ [][NextKenBurns]_vars

\* _make_request; every post returns or raises, and every sleep ends
InitQ == InitCreate /\ IdleResolution /\ IdleKenBurns /\ IdleRequest
SpecRequest == InitQ /\ [][NextRequest]_vars /\ WF_vars(NextRequest)

-----------------------------------------------------------------------------
(* Properties *)

MaxAllowed == MAX_VIDEO_LENGTH * 10 + DURATION_TOLERANCE
Succeeded(c) == pc[c] = "done" /\ ret[c] # ReturnNone /\ ret[c][1] = "output"
Finished(c) == pc[c] = "done"

\* C1: on every exit path of create_video, each media handle that
\* _manage_clips opened has had close() called on it exactly once by the
\* time create_video returns, and a handle that was never opened is never
\* closed.
C1_HandlesReleasedOnce ==
    \A c \in Calls :
       /\ image[c].closed <= image[c].opened /\ image[c].opened <= 1
       /\ audio[c].closed <= audio[c].opened /\ audio[c].opened <= 1
       /\ Finished(c) => /\ image[c].closed = image[c].opened
                         /\ audio[c].closed = audio[c].opened

\* A call whose rendering failed returned with both handles closed once,
\* and a call whose audio never opened returned with only the image closed.
C1_Witness ==
    \E c, k \in Calls :
       /\ Finished(c) /\ exc[c].msg = "write_videofile failed"
       /\ image[c].closed = 1 /\ audio[c].closed = 1
       /\ Finished(k) /\ exc[k].msg = "audio open failed"
       /\ image[k].closed = 1 /\ audio[k].opened = 0 /\ audio[k].closed = 0

C3_DurationExceededFailsEarly ==
    \A c \in Calls :
       (audio[c].opened = 1 /\ audio[c].duration > MaxAllowed) =>
          /\ "process_resolution" \notin trace[c]
          /\ "render" \notin trace[c]
          /\ outPath[c] = NoPath
          /\ "check_duration" \in trace[c] =>
               /\ image[c].opened = 1
               /\ exc[c] = VideoProcessingError("Audio duration exceeds maximum allowed length")
          /\ Finished(c) => ret[c] = ReturnNone /\ "check_duration" \in trace[c]

\* A call with 180.6 s of audio came back as None on the duration error.
C3_Witness ==
    \E c \in Calls :
       /\ Finished(c) /\ audio[c].duration = MaxAllowed + 1
       /\ exc[c].msg = "Audio duration exceeds maximum allowed length"
       /\ ret[c] = ReturnNone /\ outPath[c] = NoPath

\* C4: a call whose audio opened with a duration d, 0 < d <=
\* MAX_VIDEO_LENGTH + DURATION_TOLERANCE, and in which no library call
\* failed, succeeds with the clip's duration set to d; and in every
\* successful call the clip's duration is the audio's and within the limit.
C4_ClipDurationIsAudioDuration ==
    \A c \in Calls :
       /\ Succeeded(c) =>
            /\ clip[c].duration = audio[c].duration
            /\ clip[c].duration > 0 /\ clip[c].duration <= MaxAllowed
       /\ ( /\ Finished(c) /\ audio[c].opened = 1
            /\ audio[c].duration > 0 /\ audio[c].duration <= MaxAllowed
            /\ exc[c].cls # "Exception" )
          => Succeeded(c) /\ clip[c].duration = audio[c].duration

\* A call with audio of exactly 180.5 s succeeded with a 180.5 s clip.
C4_Witness ==
    \E c \in Calls :
       /\ Succeeded(c) /\ audio[c].duration = MaxAllowed
       /\ clip[c].duration = MaxAllowed

\* The error kinds of the taxonomy, by the place that raised.
ErrorKind(e) ==
    IF e = NoExc THEN "none"
    ELSE IF e.msg \in {"Image file not found", "Audio file not found",
                       "Image file is empty", "Audio file is empty",
                       "Failed to validate image"} THEN "validation"
    ELSE IF e.msg = "Audio duration exceeds maximum allowed length" THEN "duration"
    ELSE IF e.msg \in {"write_videofile failed", "resize failed"} THEN "render"
    ELSE "resource"

\* C5: a failed create_video returns a value that carries the error kind,
\* so two calls that failed with different kinds returned different values.
C5_FailureCarriesErrorKind ==
    \A c, k \in Calls :
       ( /\ Finished(c) /\ Finished(k)
         /\ exc[c] # NoExc /\ exc[k] # NoExc
         /\ ErrorKind(exc[c]) # ErrorKind(exc[k]) )
       => ret[c] # ret[k]

\* C6: once _validate_inputs has run on a request it rejects, the call
\* has opened no image and no audio handle, runs no later step (no
\* acquisition, duration check, normalization or rendering), writes no
\* output path, and returns None.
C6_ValidationPrecedesAcquisition ==
    \A c \in Calls :
       /\ (image[c].opened > 0 \/ audio[c].opened > 0) => "validate" \in trace[c]
       /\ ("validate" \in trace[c] /\ ValidateInputs(req[c].image, req[c].audio) # "ok") =>
            /\ image[c].opened = 0 /\ audio[c].opened = 0
            /\ trace[c] = {"validate"}
            /\ outPath[c] = NoPath
            /\ pc[c] \in {"return", "done"}
            /\ Finished(c) => ret[c] = ReturnNone

\* A call with a nonexistent image path came back as None with nothing
\* opened.
C6_Witness ==
    \E c \in Calls :
       /\ Finished(c) /\ req[c].image = "missing"
       /\ exc[c] = VideoProcessingError("Image file not found")
       /\ ret[c] = ReturnNone /\ image[c].opened = 0 /\ audio[c].opened = 0

\* C7: two calls of create_video never compute the same output path.
C7_DistinctOutputPaths ==
    \A c, k \in Calls :
       (c # k /\ outPath[c] # NoPath /\ outPath[k] # NoPath) => outPath[c] # outPath[k]

C9_EasingAndZoomEndpoints ==
    LET d  == kbClip.duration
        z0 == kbConfig.zoom_range[1]
        z1 == kbConfig.zoom_range[2]
    IN  \A f, g \in kbFrames :
           /\ (0 <= f.t /\ f.t <= g.t /\ g.t <= d) => f.progress <= g.progress
           /\ f.t = 0 => f.progress = 0
           /\ 2 * f.t = d => 2 * f.progress = d * d
           /\ f.t = d => f.progress = d * d
           /\ (f.t = 0 /\ kbDirection = "in") => f.zoom = z0 * d * d
           /\ (f.t = d /\ kbDirection = "in") => f.zoom = z1 * d * d
           /\ (f.t = 0 /\ kbDirection = "out") => f.zoom = z1 * d * d
           /\ (f.t = d /\ kbDirection = "out") => f.zoom = z0 * d * d
           /\ kbDirection \in {"in", "out"}

\* A clip of four ticks zooming out was sampled at its middle and at its
\* end: progress 1/2 and 1, zoom back at z0.
C9_Witness ==
    /\ kbClip.duration = 4 /\ kbDirection = "out"
    /\ kbConfig.direction = "random"
    /\ \E f, g \in kbFrames :
          /\ f.t = 2 /\ f.progress = 8
          /\ g.t = 4 /\ g.progress = 16
          /\ g.zoom = kbConfig.zoom_range[1] * 16

\* C10: within one render the pan targets are fixed: there is one pair of
\* targets with pan(t) = (target_x * e(u), target_y * e(u)) on every frame
\* sampled, so two samples at the same timestamp agree.
C10_PanTargetsFixedPerRender ==
    /\ \E tx \in Uniform(kbConfig.pan_range), ty \in Uniform(kbConfig.pan_range) :
          \A f \in kbFrames : f.pan = <<tx * f.progress, ty * f.progress>>
    /\ \A f, g \in kbFrames : f.t = g.t => f.pan = g.pan

\* C11: in _manage_clips, when opening the image or the audio fails, or
\* the opened image reports no size, or the opened audio reports a zero or
\* undefined duration, an exception is in flight and no step of the body
\* of the with-block (duration check, normalization, rendering) has run or
\* will run: the call is past the body.
C11_GuardRaisesBeforeYield ==
    \A c \in Calls :
       ( \/ ("open_image" \in trace[c] /\ image[c].opened = 0)
         \/ (image[c].opened = 1 /\ InvalidSize(image[c].size))
         \/ ("open_audio" \in trace[c] /\ audio[c].opened = 0)
         \/ (audio[c].opened = 1 /\ audio[c].duration = 0) )
       => /\ trace[c] \cap {"check_duration", "process_resolution", "render"} = {}
          /\ exc[c] # NoExc
          /\ pc[c] \in {"release", "return", "done"}
          /\ outPath[c] = NoPath

\* One call ended on an audio without duration and another on an image
\* that could not be opened, both without entering the body.
C11_Witness ==
    \E c, k \in Calls :
       /\ Finished(c) /\ audio[c].opened = 1 /\ audio[c].duration = 0
       /\ exc[c] = VideoProcessingError("Failed to load audio: invalid duration")
       /\ "check_duration" \notin trace[c]
       /\ Finished(k) /\ image[k].opened = 0
       /\ exc[k] = LibraryError("image open failed")
       /\ "check_duration" \notin trace[k]

\* C12: the finally of _manage_clips never changes the exception in
\* flight and always goes on to the return: whether or not a close()
\* fails, the step that leaves it has called close() on the held image
\* handle and on the held audio handle, and the error of the body (or its
\* absence) is what it was.
C12_CloseFailuresSuppressed ==
    [][\A c \in Calls :
          (pc[c] = "release" /\ pc'[c] # "release") =>
             /\ pc'[c] = "return"
             /\ exc'[c] = exc[c]
             /\ image[c].opened = 1 => image'[c].closed = 1
             /\ audio[c].opened = 1 => audio'[c].closed = 1]_vars

\* Both closes failed after a failed render: both failures are logged,
\* the audio was closed all the same, and the render error is the one
\* reported; in another call both closes failed after a successful render
\* and the path was returned.
C12_Witness ==
    \E c, k \in Calls :
       /\ Finished(c)
       /\ {"Error closing image clip", "Error closing audio clip"} \subseteq logs[c]
       /\ exc[c] = LibraryError("write_videofile failed")
       /\ "write_videofile failed" \in logs[c]
       /\ image[c].closed = 1 /\ audio[c].closed = 1
       /\ ret[c] = ReturnNone
       /\ {"Error closing image clip", "Error closing audio clip"} \subseteq logs[k]
       /\ Succeeded(k)

\* C13: the new size is (round(w * scale), round(h * scale)) with scale =
\* min(W/w, H/h): each scaled dimension is a nearest integer to the exact
\* scaled value (3x2 on 1024x1024 gives a height of 683).
C13_NewSizeIsRounded ==
    (resOut # NotRun /\ resOut.exc = NoExc) =>
       LET s == Scale(resIn.size, resIn.canvas)
       IN  \A i \in {1, 2} :
              LET off == 2 * (resOut.newSize[i] * s[2] - resIn.size[i] * s[1])
              IN  0 - s[2] <= off /\ off <= s[2]

\* C14: u = t / duration is clamped to [0, 1] before easing: for a clip
\* of positive duration the progress is 0 at every t < 0 and 1 at every
\* t > duration, and the zoom stays between z0 and z1.
C14_ProgressClamped ==
    LET d  == kbClip.duration
        z0 == kbConfig.zoom_range[1]
        z1 == kbConfig.zoom_range[2]
    IN  d > 0 =>
           \A f \in kbFrames :
              /\ f.t < 0 => f.progress = 0
              /\ f.t > d => f.progress = d * d
              /\ z0 * d * d <= f.zoom /\ f.zoom <= z1 * d * d

\* C15: a clip whose duration is zero, negative or unset is rejected by
\* _apply_enhanced_ken_burns: the effects are never attached to it and no
\* zoom or pan is computed with its duration.
C15_NonPositiveDurationRejected ==
    kbClip.duration <= 0 => (kbState # "applied" /\ kbFrames = {})

\* C16: for a source image of width 0 or height 0, _process_resolution
\* raises its own invalid-size error from the size check, before any
\* division by the zero dimension.
C16_ZeroSizeRejectedByCheck ==
    ( /\ resOut # NotRun /\ ~InvalidSize(resIn.size)
      /\ (resIn.size[1] = 0 \/ resIn.size[2] = 0) )
    => resOut.exc = VideoProcessingError("Invalid ImageClip: missing or invalid size attribute")

\* C17: _validate_inputs checks that both paths exist, then that both
\* files are non-empty, then that the image decodes to non-null
\* dimensions, and raises at the first check that fails: the error names
\* that check and file, and the image is decoded only when the four
\* earlier checks passed.
C17_ValidationOrder ==
    \A c \in Calls :
       "validate" \in trace[c] =>
          LET i == req[c].image
              a == req[c].audio
              present == i # "missing" /\ a # "missing"
              filled  == present /\ i # "empty" /\ a # "empty"
          IN  /\ i = "missing" => exc[c].msg = "Image file not found"
              /\ (i # "missing" /\ a = "missing") => exc[c].msg = "Audio file not found"
              /\ (present /\ i = "empty") => exc[c].msg = "Image file is empty"
              /\ (present /\ i # "empty" /\ a = "empty") => exc[c].msg = "Audio file is empty"
              /\ (filled /\ i \in {"undecodable", "nullsize"}) =>
                    exc[c].msg = "Failed to validate image"
              /\ (filled /\ i = "ok") => "open_image" \in trace[c] \/ pc[c] = "open_image"
              /\ probed[c] <=> filled
              /\ ~filled => exc[c].cls = "VideoProcessingError"

\* A missing audio file together with an empty image file was reported as
\* the missing audio file, without a decode of the image.
C17_Witness ==
    \E c \in Calls :
       /\ Finished(c) /\ req[c] = [image |-> "empty", audio |-> "missing"]
       /\ exc[c] = VideoProcessingError("Audio file not found")
       /\ ~probed[c] /\ ret[c] = ReturnNone

AllFailed == \A i \in DOMAIN mrAttempts : mrAttempts[i] \in PostFailures

\* The attempts of _make_request: never more than MAX_RETRIES + 1, none
\* after one that did not raise a RequestException, None exactly after
\* MAX_RETRIES + 1 failed ones, the text right after the first success.
AttemptsBounded ==
    /\ Len(mrAttempts) <= MAX_RETRIES + 1
    /\ mrRetries <= MAX_RETRIES
    /\ \A i \in DOMAIN mrAttempts : i < Len(mrAttempts) => mrAttempts[i] \in PostFailures
    /\ (mrPc = "done" /\ AllFailed) =>
          Len(mrAttempts) = MAX_RETRIES + 1 /\ mrResult = "None"
    /\ mrResult = "None" => (AllFailed /\ Len(mrAttempts) = MAX_RETRIES + 1)
    /\ (mrAttempts # <<>> /\ mrAttempts[Len(mrAttempts)] = "ok") =>
          mrPc = "done" /\ mrResult = "text"

\* C18: _make_request always terminates; when every attempt fails with a
\* RequestException it makes exactly MAX_RETRIES + 1 attempts and returns
\* None, and it issues no request after a successful one.
C18_MakeRequestTerminates == []AttemptsBounded /\ <>(mrPc = "done")

\* Four attempts failed and None was returned; no fifth was made.
C18_Witness ==
    /\ mrPc = "done" /\ mrResult = "None"
    /\ Len(mrAttempts) = MAX_RETRIES + 1 /\ AllFailed

=============================================================================
